---- MODULE Spec2Model ----
(***************************************************************************)
(* Model of the twin-prime engine (optimizado.py, gemelos.py), of the       *)
(* analyses made on its lists (estadisticas.py, the views of gemelos.py)   *)
(* and of the front ends that call it (gemelos.menu, estadisticas          *)
(* __main__, interfaz.PrimosGemelosGUI).                                    *)
(*                                                                         *)
(* Engine functions are pure: each is an operator computed the way the     *)
(* code computes it (marker array, loops, early returns).  A call that     *)
(* raises is modelled by the field "estado" of its result.  Floats are     *)
(* kept as exact rationals (Fraccion); their rounding is not modelled,     *)
(* except where a float is truncated to an integer (extremos_posibles).    *)
(*                                                                         *)
(* A handler of the GUI is one step, except exportar_csv, which waits in   *)
(* the save dialog between its test of self.gemelos and its writing.  The  *)
(* threads of generar_primos take their steps in between.  The variables   *)
(* origen and ultima are history: the program does not keep them.          *)
(***************************************************************************)
EXTENDS Integers, Sequences, FiniteSets, TLC

VARIABLES
    op,         \* engine: name of the engine function called last
    limite,     \* engine: integer argument of that call
    entrada,    \* engine: sequence argument of that call (the scan's input)
    tam_ventana,    \* engine: window size the call worked with (0: none)
    res,        \* engine: what the call produced: [estado, asignado, valor]
    programa,       \* front ends: which program runs ("ninguno" before launch)
    consola_pc,     \* console programs: where the program stands
    menu_gemelos,   \* gemelos.menu: its local list gemelos
    gemelos,        \* GUI: self.gemelos
    campo_limite,   \* GUI: content of the entry bound to self.limite
    method_var,     \* GUI: self.method_var
    status_var,     \* GUI: self.status_var
    hilos,          \* GUI: the background threads of generar_primos
    dialogo,        \* GUI: the save dialog of exportar_csv ("abierto" while
                    \* the handler waits in asksaveasfilename)
    origen,         \* history: the limit and method self.gemelos was computed with
    ultima,         \* history: the latest request among Generar and Limpiar
    evento          \* the last front-end step: [nombre, salida, campo, llamadas]

engineVars == <<op, limite, entrada, tam_ventana, res>>

frontVars == <<programa, consola_pc, menu_gemelos, gemelos, campo_limite,
               method_var, status_var, hilos, dialogo, origen, ultima, evento>>

----------------------------------------------------------------------------
(* Bounds of the model *)

\* arguments of the engine calls range over -MinLimiteNeg .. MaxLimite
MaxLimite == 30
MinLimiteNeg == 3
\* the scan is applied to every strictly increasing sequence over 1..MaxValor
MaxValor == 7

Limites == (0 - MinLimiteNeg)..MaxLimite

\* window sizes handed to calcular_densidad
MaxVentana == 12
\* limits in the hundreds, where the analysis has many windows
MinCentenas == 2
MaxCentenas == 11

LimitesGrandes == {100 * MinCentenas, 100 * MaxCentenas}

\* what the user types as a limit: an integer in -MinCampoNeg..MaxCampo, or
\* a text that is not an integer
MaxCampo == 2
MinCampoNeg == 1
\* background threads of the GUI alive at once
MaxHilos == 2

----------------------------------------------------------------------------
(* Results of a call *)

Ok(v) == [estado |-> "ok", asignado |-> TRUE, valor |-> v]
Falla(e, a) == [estado |-> e, asignado |-> a, valor |-> <<>>]

----------------------------------------------------------------------------
(* optimizado.py: criba_eratostenes *)

\* np.ones(n, dtype=bool): indices 0..n-1, all True
np_ones(n) == [k \in 0..(n - 1) |-> TRUE]

\* int(np.sqrt(n)) for n >= 0: the integer part of the square root
entero_raiz(n) == CHOOSE r \in 0..n : r * r <= n /\ (r + 1) * (r + 1) > n

\* variant of marcar_multiplos that starts one multiple too late
marcar_multiplos_tarde(es, i, lim) ==
    [k \in DOMAIN es |->
        IF k >= i * i + i /\ k <= lim /\ (k - i * i) % i = 0 THEN FALSE ELSE es[k]]

\* es_primo[i*i:limite+1:i] = False
marcar_multiplos(es, i, lim) ==
    [k \in DOMAIN es |->
        IF k >= i * i /\ k <= lim /\ (k - i * i) % i = 0 THEN FALSE ELSE es[k]]

\* for i in range(2, int(np.sqrt(limite)) + 1): if es_primo[i]: mark
RECURSIVE criba_bucle(_, _, _, _)
criba_bucle(es, i, fin, lim) ==
    IF i > fin THEN es
    ELSE criba_bucle(IF es[i] THEN marcar_multiplos(es, i, lim) ELSE es,
                     i + 1, fin, lim)

\* variant of np_where that leaves out the last index
np_where_corto(es, n) ==
    SelectSeq([k \in 1..(n - 1) |-> k - 1], LAMBDA k : es[k])

\* np.where(es_primo)[0]: the indices 0..n-1 holding True, ascending
np_where(es, n) ==
    SelectSeq([k \in 1..n |-> k - 1], LAMBDA k : es[k])

criba_eratostenes(lim) ==
    IF lim + 1 < 0
    THEN Falla("ValueError", FALSE)      \* np.ones of a negative dimension
    ELSE IF lim + 1 < 2
    THEN Falla("IndexError", TRUE)       \* es_primo[0] / es_primo[1] out of bounds
    ELSE LET es0 == [np_ones(lim + 1) EXCEPT ![0] = FALSE, ![1] = FALSE]
             es1 == criba_bucle(es0, 2, entero_raiz(lim), lim)
         IN  Ok(np_where(es1, lim + 1))

----------------------------------------------------------------------------
(* optimizado.py: encontrar_primos_gemelos_optimizado *)

\* variant of dif_dos_optimizado that accepts any difference up to 2
dif_dos_optimizado_laxa(primos, i) == primos[i + 1] - primos[i] <= 2

\* if primos[i + 1] - primos[i] == 2   (i is 1-based here)
dif_dos_optimizado(primos, i) == primos[i + 1] - primos[i] = 2

\* for i in range(len(primos) - 1): ... gemelos.append((primos[i], primos[i + 1]))
\* from index i on: the indices that pass the test, then the pair of each
pares_optimizado(primos, i) ==
    LET indices == SelectSeq([k \in 1..(Len(primos) - i) |-> k + i - 1],
                             LAMBDA k : dif_dos_optimizado(primos, k))
    IN  [j \in 1..Len(indices) |-> <<primos[indices[j]], primos[indices[j] + 1]>>]

\* variant of encontrar_primos_gemelos_optimizado that admits a pair as soon
\* as its first member is within the limit
encontrar_primos_gemelos_primer_miembro(lim) ==
    LET primos == criba_eratostenes(lim + 2)
    IN  IF primos.estado # "ok" THEN primos
        ELSE Ok(SelectSeq(pares_optimizado(primos.valor, 1),
                          LAMBDA par : par[1] <= lim))

encontrar_primos_gemelos_optimizado(lim) ==
    LET primos == criba_eratostenes(lim)
    IN  IF primos.estado # "ok" THEN primos
        ELSE Ok(pares_optimizado(primos.valor, 1))

----------------------------------------------------------------------------
(* gemelos.py: es_primo, generar_primos, encontrar_primos_gemelos *)

\* variant of ultimo_divisor that stops one divisor early
ultimo_divisor_corto(n) == entero_raiz(n) - 1

\* range(2, int(np.sqrt(n)) + 1): the last divisor tried
ultimo_divisor(n) == entero_raiz(n)

\* for i in range(2, ...): if n % i == 0: return False;  return True
RECURSIVE es_primo_bucle(_, _, _)
es_primo_bucle(n, i, fin) ==
    IF i > fin THEN TRUE
    ELSE IF n % i = 0 THEN FALSE
    ELSE es_primo_bucle(n, i + 1, fin)

es_primo(n) == IF n < 2 THEN FALSE ELSE es_primo_bucle(n, 2, ultimo_divisor(n))

\* range(2, limite + 1), empty when limite < 2
rango_candidatos(lim) == [k \in 1..(lim - 1) |-> k + 1]

\* for n in range(2, limite + 1): if es_primo(n): primos.append(n)
generar_primos(lim) == Ok(SelectSeq(rango_candidatos(lim), es_primo))

\* variant of dif_dos_basico that accepts any difference up to 2
dif_dos_basico_laxa(primos, i) == primos[i + 1] - primos[i] <= 2

\* if primos[i + 1] - primos[i] == 2   (i is 1-based here)
dif_dos_basico(primos, i) == primos[i + 1] - primos[i] = 2

RECURSIVE pares_basico(_, _)
pares_basico(primos, i) ==
    IF i > Len(primos) - 1 THEN <<>>
    ELSE (IF dif_dos_basico(primos, i)
          THEN << <<primos[i], primos[i + 1]>> >> ELSE <<>>)
         \o pares_basico(primos, i + 1)

encontrar_primos_gemelos(lim) ==
    Ok(pares_basico(generar_primos(lim).valor, 1))

----------------------------------------------------------------------------
(* optimizado.py: comparar_rendimiento (the timings are left out) *)

comparar_rendimiento(lim) ==
    LET gemelos_basico == encontrar_primos_gemelos(lim)
        gemelos_optimizado == encontrar_primos_gemelos_optimizado(lim)
    IN  IF gemelos_optimizado.estado # "ok" THEN gemelos_optimizado
        ELSE IF Len(gemelos_basico.valor) # Len(gemelos_optimizado.valor)
        THEN Falla("AssertionError", TRUE)
        ELSE Ok(<<Len(gemelos_optimizado.valor)>>)

----------------------------------------------------------------------------
(* estadisticas.py: analizar_distancias_entre_gemelos *)

\* the rational number num/den; the floats of the code are kept exact
Fraccion(n, d) == [num |-> n, den |-> d]

\* the non-negative number whose square is the rational f
Raiz(f) == [cuadrado |-> f]

RECURSIVE Suma(_)
Suma(s) == IF s = <<>> THEN 0 ELSE s[1] + Suma(Tail(s))

\* variant of distancias_analizar that subtracts the two members of one pair
distancias_analizar_interna(g) ==
    [i \in 1..(Len(g) - 1) |-> g[i][2] - g[i][1]]

\* for i in range(len(gemelos) - 1):
\*     distancias.append(gemelos[i+1][0] - gemelos[i][0])
distancias_analizar(g) ==
    [i \in 1..(Len(g) - 1) |-> g[i + 1][1] - g[i][1]]

\* np.mean(distancias)
np_mean(d) == Fraccion(Suma(d), Len(d))

\* sorted copy of a sequence, as np.median makes before it picks the middle
RECURSIVE insertar(_, _)
insertar(x, s) ==
    IF s = <<>> THEN <<x>>
    ELSE IF x <= s[1] THEN <<x>> \o s
    ELSE <<s[1]>> \o insertar(x, Tail(s))

RECURSIVE ordenar(_)
ordenar(s) == IF s = <<>> THEN <<>> ELSE insertar(s[1], ordenar(Tail(s)))

\* np.median(distancias): the middle element of the sorted series, or the
\* mean of the two middle elements when the length is even
np_median(d) ==
    LET n == Len(d)
        o == ordenar(d)
    IN  IF n = 0 THEN Fraccion(0, 0)         \* nan, with a warning
        ELSE IF n % 2 = 1 THEN Fraccion(o[(n + 1) \div 2], 1)
        ELSE Fraccion(o[n \div 2] + o[n \div 2 + 1], 2)

\* variant of divisor_std with the divisor of the sample deviation
divisor_std_muestral(n) == n - 1

\* np.std(distancias) has ddof = 0: the squared deviations are averaged over n
divisor_std(n) == n

\* np.std(distancias): sqrt(mean(abs(x - x.mean())**2)); with S the sum and n
\* the length, (x - S/n)**2 = (n*x - S)**2 / n**2
np_std(d) ==
    LET n == Len(d)
        S == Suma(d)
    IN  Raiz(Fraccion(Suma([i \in 1..n |-> (n * d[i] - S) * (n * d[i] - S)]),
                      n * n * divisor_std(n)))

Analisis(d, media, mediana, desviacion) ==
    [distancias |-> d, media |-> media, mediana |-> mediana,
     desviacion |-> desviacion]

\* return [], 0, 0, 0
AnalisisVacio == Analisis(<<>>, Fraccion(0, 1), Fraccion(0, 1), Raiz(Fraccion(0, 1)))

analizar_distancias_entre_gemelos(g) ==
    IF Len(g) < 2 THEN Ok(AnalisisVacio)
    ELSE LET distancias == distancias_analizar(g)
         IN  Ok(Analisis(distancias, np_mean(distancias), np_median(distancias),
                         np_std(distancias)))

----------------------------------------------------------------------------
(* gemelos.py: visualizar_histograma_distancias, visualizar_tendencia *)

\* how a view ends: what it showed, the gap series it derived, whether it
\* computed statistics (mean, median, ...) on the series and whether it ran
\* the linear regression on it
Vista(salida, d, estadisticas, regresion) ==
    [salida |-> salida, distancias |-> d, estadisticas |-> estadisticas,
     regresion |-> regresion]

\* gemelos.py:184-189
distancias_histograma(g) ==
    [i \in 1..(Len(g) - 1) |-> g[i + 1][1] - g[i][1]]

\* variant of pocos_pares_histograma that lets a single pair through
pocos_pares_histograma_uno(g) == Len(g) < 1

\* if len(gemelos) < 2   (gemelos.py:179)
pocos_pares_histograma(g) == Len(g) < 2

visualizar_histograma_distancias(g) ==
    IF pocos_pares_histograma(g) THEN Vista("insuficiente", <<>>, FALSE, FALSE)
    ELSE Vista("grafico", distancias_histograma(g), FALSE, FALSE)

\* variant of distancias_tendencia that measures from the first pair
distancias_tendencia_desde_primero(g) ==
    [i \in 1..(Len(g) - 1) |-> g[i + 1][1] - g[1][1]]

\* gemelos.py:214-223
distancias_tendencia(g) ==
    [i \in 1..(Len(g) - 1) |-> g[i + 1][1] - g[i][1]]

\* the argument limite is not read by the body
visualizar_tendencia(g, lim) ==
    IF Len(g) < 2 THEN Vista("insuficiente", <<>>, FALSE, FALSE)
    ELSE Vista("grafico", distancias_tendencia(g), FALSE, TRUE)

----------------------------------------------------------------------------
(* interfaz.py: the gap series of visualizar and of mostrar_estadisticas *)

\* interfaz.py:199-206, tipo_visual == "tendencia"
distancias_gui_tendencia(g) ==
    [i \in 1..(Len(g) - 1) |-> g[i + 1][1] - g[i][1]]

\* interfaz.py:263-267, tipo_visual == "histograma"
distancias_gui_histograma(g) ==
    [i \in 1..(Len(g) - 1) |-> g[i + 1][1] - g[i][1]]

\* interfaz.py:308-312, mostrar_estadisticas
distancias_gui_estadisticas(g) ==
    [i \in 1..(Len(g) - 1) |-> g[i + 1][1] - g[i][1]]

----------------------------------------------------------------------------
(* interfaz.py: the mode of mostrar_estadisticas *)

\* an entry of a Counter: a value and the number of times it was counted
Item(valor, veces) == [valor |-> valor, veces |-> veces]

\* Counter(distancias): a dict keeps its keys in the order of their first
\* insertion, so the items come in the order in which each value first
\* occurs in the series
Counter(d) ==
    LET primeras == SelectSeq([i \in 1..Len(d) |-> i],
                              LAMBDA i : \A j \in 1..(i - 1) : d[j] # d[i])
    IN  [k \in 1..Len(primeras) |->
            Item(d[primeras[k]],
                 Cardinality({i \in 1..Len(d) : d[i] = d[primeras[k]]}))]

\* variant of supera that lets a later item of equal count replace the best
supera_o_iguala(item, mejor) == item.veces >= mejor.veces

\* max(it, key=itemgetter(1)) replaces the best item so far only by an item
\* whose count is strictly greater
supera(item, mejor) == item.veces > mejor.veces

RECURSIVE max_por_veces(_, _, _)
max_por_veces(items, i, mejor) ==
    IF i > Len(items) THEN mejor
    ELSE max_por_veces(items, i + 1,
                       IF supera(items[i], mejor) THEN items[i] ELSE mejor)

\* contador.most_common(1)[0]: heapq.nlargest(1, items, key=itemgetter(1)),
\* which for n == 1 is max over the items in dict order
most_common_1(contador) == max_por_veces(contador, 2, contador[1])

----------------------------------------------------------------------------
(* estadisticas.py: calcular_densidad *)

\* calcular_densidad(gemelos, limite, tam_ventana=100)
TamVentanaDefecto == 100

\* np.arange(0, alto, paso) for paso >= 1: 0, paso, 2*paso, ... below alto
np_arange(alto, paso) ==
    [k \in 1..((alto + paso - 1) \div paso) |-> (k - 1) * paso]

\* sum(1 for p in primeros_primos if inicio <= p < fin)
contar_en_ventana(primeros_primos, inicio, fin) ==
    Len(SelectSeq(primeros_primos, LAMBDA p : inicio <= p /\ p < fin))

Densidad(w, centros, densidades) ==
    [tam_ventana |-> w, centros |-> centros, densidades |-> densidades]

calcular_densidad(g, lim, w) ==
    LET primeros_primos == [i \in 1..Len(g) |-> g[i][1]]
        ventanas == np_arange(lim, w)
    IN  Ok(Densidad(w,
               [i \in 1..(Len(ventanas) - 1) |->
                   Fraccion(ventanas[i] + ventanas[i + 1], 2)],
               [i \in 1..(Len(ventanas) - 1) |->
                   Fraccion(contar_en_ventana(primeros_primos, ventanas[i],
                                              ventanas[i + 1]), w)]))

\* the call without a window size takes the default of the signature
calcular_densidad_defecto(g, lim) == calcular_densidad(g, lim, TamVentanaDefecto)

\* variant of tam_ventana_analisis that never looks at the limit
tam_ventana_analisis_fija(lim) == 10

\* tam_ventana = max(limite // 100, 10)   (visualizar_analisis_completo)
tam_ventana_analisis(lim) ==
    IF lim \div 100 >= 10 THEN lim \div 100 ELSE 10

----------------------------------------------------------------------------
(* estadisticas.py: the ratio of twin primes to primes per window *)

\* np.linspace(0, alto, num): num points from 0 to alto, both included
np_linspace(alto, num) ==
    [k \in 1..num |-> IF num = 1 THEN Fraccion(0, 1)
                      ELSE Fraccion((k - 1) * alto, num - 1)]

\* variant of en_ventana with the window closed at its end
en_ventana_cerrada(inicio, p, fin) ==
    inicio.num <= p * inicio.den /\ p * fin.den <= fin.num

\* inicio <= p < fin
en_ventana(inicio, p, fin) ==
    inicio.num <= p * inicio.den /\ p * fin.den < fin.num

Proporcion(ventanas, centros, proporciones) ==
    [ventanas |-> ventanas, centros |-> centros, proporciones |-> proporciones]

\* estadisticas.py:179-199 for the list gemelos of the limit
proporcion_por_ventana(g, lim) ==
    LET todos_primos == criba_eratostenes(lim)
        ventanas == np_linspace(lim, IF lim \div 10 <= 100 THEN lim \div 10 ELSE 100)
        primos_en_ventana(i) ==
            Len(SelectSeq(todos_primos.valor,
                          LAMBDA p : en_ventana(ventanas[i], p, ventanas[i + 1])))
        gemelos_en_ventana(i) ==
            Len(SelectSeq(g, LAMBDA par :
                          en_ventana(ventanas[i], par[1], ventanas[i + 1])))
        con_primos == SelectSeq([i \in 1..(Len(ventanas) - 1) |-> i],
                                LAMBDA i : primos_en_ventana(i) > 0)
    IN  IF todos_primos.estado # "ok" THEN todos_primos
        ELSE Ok(Proporcion(ventanas,
                    [k \in 1..Len(con_primos) |->
                        Fraccion(ventanas[con_primos[k]].num
                                     + ventanas[con_primos[k] + 1].num,
                                 2 * ventanas[con_primos[k]].den)],
                    [k \in 1..Len(con_primos) |->
                        Fraccion(gemelos_en_ventana(con_primos[k]) * 2,
                                 primos_en_ventana(con_primos[k]))]))

----------------------------------------------------------------------------
(* estadisticas.py: comparar_con_pi *)

\* np.logspace(2, np.log10(limite), 20): the number of sub-limits
NumLimitesEscala == 20

\* Natural numbers beyond the machine word, as their digits in base 10000,
\* lowest first: the point j of the logspace is 10^(2 + j*(log10(L) - 2)/19),
\* the 19th root of 100^(19-j) * L^j, and .astype(int) keeps its integer part.

\* a * m + acarreo for a small factor m
RECURSIVE por_pequeno(_, _, _)
por_pequeno(a, m, acarreo) ==
    IF a = <<>>
    THEN IF acarreo = 0 THEN <<>>
         ELSE <<acarreo % 10000>> \o por_pequeno(<<>>, m, acarreo \div 10000)
    ELSE <<(a[1] * m + acarreo) % 10000>>
             \o por_pequeno(Tail(a), m, (a[1] * m + acarreo) \div 10000)

\* a * m^e
RECURSIVE por_potencia(_, _, _)
por_potencia(a, m, e) ==
    IF e = 0 THEN a ELSE por_potencia(por_pequeno(a, m, 0), m, e - 1)

\* a <= b, comparing from the highest digit down to digit i
RECURSIVE menor_igual_desde(_, _, _)
menor_igual_desde(a, b, i) ==
    IF i = 0 THEN TRUE
    ELSE IF a[i] # b[i] THEN a[i] < b[i]
    ELSE menor_igual_desde(a, b, i - 1)

menor_igual(a, b) ==
    \/ Len(a) < Len(b)
    \/ Len(a) = Len(b) /\ menor_igual_desde(a, b, Len(a))

\* the greatest m in lo..hi with m^(NumLimitesEscala - 1) <= x, by bisection
RECURSIVE raiz_entera(_, _, _)
raiz_entera(x, lo, hi) ==
    IF lo = hi THEN lo
    ELSE LET medio == (lo + hi + 1) \div 2
         IN  IF menor_igual(por_potencia(<<1>>, medio, NumLimitesEscala - 1), x)
             THEN raiz_entera(x, medio, hi)
             ELSE raiz_entera(x, lo, medio - 1)

\* limite = 10^k for a natural k: np.log10 and the power are then exact
RECURSIVE es_potencia_de_diez(_)
es_potencia_de_diez(n) ==
    IF n = 1 THEN TRUE
    ELSE IF n < 1 \/ n % 10 # 0 THEN FALSE
    ELSE es_potencia_de_diez(n \div 10)

\* int(10.0 ** np.log10(limite)), the last point: the float lands within a
\* few units in the last place of limite, on either side, so the integer part
\* is limite or limite - 1 (30 gives 29, 20 gives 20)
extremos_posibles(lim) ==
    IF es_potencia_de_diez(lim) THEN {lim} ELSE {lim - 1, lim}

\* the point j (0-based, not the last one) of the logspace, as an integer
punto_escala(lim, j) ==
    raiz_entera(por_potencia(por_potencia(<<1>>, 100, NumLimitesEscala - 1 - j),
                             lim, j),
                1, IF lim > 100 THEN lim ELSE 100)

\* the points of every limit the comparison is run for, each computed once
puntos_escala ==
    [lim \in (1..MaxLimite) \cup {100 * MinCentenas} |->
        [k \in 1..(NumLimitesEscala - 1) |-> punto_escala(lim, k - 1)]]

\* np.logspace(2, np.log10(limite), 20).astype(int), its last point being extremo
limites_escala(lim, extremo) ==
    [k \in 1..NumLimitesEscala |->
        IF k = NumLimitesEscala THEN extremo
        ELSE IF lim \in DOMAIN puntos_escala THEN puntos_escala[lim][k]
        ELSE punto_escala(lim, k - 1)]

\* C * lim / (np.log(lim) ** 2) with C = 0.66, kept as the formula's argument
Estimado(lim) == [C |-> Fraccion(66, 100), lim |-> lim]

Comparacion(escala, reales, estimadas) ==
    [limites_escala |-> escala, cantidades_reales |-> reales,
     cantidades_estimadas |-> estimadas]

\* the sub-limits never leave 1 .. max(100, limite): the engine's answers
\* there, each computed once
MayorSubLimite == IF 100 * MinCentenas > 100 THEN 100 * MinCentenas ELSE 100

gemelos_por_limite ==
    [n \in 1..MayorSubLimite |-> encontrar_primos_gemelos_optimizado(n)]

comparar_con_pi(lim, extremo) ==
    LET escala == limites_escala(lim, extremo)
    IN  Ok(Comparacion(escala,
               [k \in 1..Len(escala) |-> Len(gemelos_por_limite[escala[k]].valor)],
               [k \in 1..Len(escala) |-> Estimado(escala[k])]))

----------------------------------------------------------------------------
(* Engine specification: every engine function applied to every argument *)

\* the strictly increasing sequence holding the elements of S
RECURSIVE Ascendente(_)
Ascendente(S) ==
    IF S = {} THEN <<>>
    ELSE LET m == CHOOSE x \in S : \A y \in S : x <= y
         IN  <<m>> \o Ascendente(S \ {m})

InitEngine ==
    /\ op = "ninguna"
    /\ limite = 0
    /\ entrada = <<>>
    /\ tam_ventana = 0
    /\ res = Ok(<<>>)

LlamarCriba(n) ==
    /\ op' = "criba_eratostenes"
    /\ limite' = n
    /\ entrada' = <<>>
    /\ res' = criba_eratostenes(n)
    /\ tam_ventana' = 0
    /\ UNCHANGED frontVars

LlamarGemelosOptimizado(n) ==
    /\ op' = "encontrar_primos_gemelos_optimizado"
    /\ limite' = n
    /\ entrada' = <<>>
    /\ res' = encontrar_primos_gemelos_optimizado(n)
    /\ tam_ventana' = 0
    /\ UNCHANGED frontVars

LlamarEsPrimo(n) ==
    /\ op' = "es_primo"
    /\ limite' = n
    /\ entrada' = <<>>
    /\ res' = Ok(es_primo(n))
    /\ tam_ventana' = 0
    /\ UNCHANGED frontVars

LlamarGenerarPrimos(n) ==
    /\ op' = "generar_primos"
    /\ limite' = n
    /\ entrada' = <<>>
    /\ res' = generar_primos(n)
    /\ tam_ventana' = 0
    /\ UNCHANGED frontVars

LlamarGemelosBasico(n) ==
    /\ op' = "encontrar_primos_gemelos"
    /\ limite' = n
    /\ entrada' = <<>>
    /\ res' = encontrar_primos_gemelos(n)
    /\ tam_ventana' = 0
    /\ UNCHANGED frontVars

LlamarCompararRendimiento(n) ==
    /\ op' = "comparar_rendimiento"
    /\ limite' = n
    /\ entrada' = <<>>
    /\ res' = comparar_rendimiento(n)
    /\ tam_ventana' = 0
    /\ UNCHANGED frontVars

\* the scan loop of encontrar_primos_gemelos_optimizado on a given sequence
EscanearOptimizado(S) ==
    /\ op' = "escanear_optimizado"
    /\ limite' = 0
    /\ entrada' = Ascendente(S)
    /\ res' = Ok(pares_optimizado(Ascendente(S), 1))
    /\ tam_ventana' = 0
    /\ UNCHANGED frontVars

\* the scan loop of encontrar_primos_gemelos on a given sequence
EscanearBasico(S) ==
    /\ op' = "escanear_basico"
    /\ limite' = 0
    /\ entrada' = Ascendente(S)
    /\ res' = Ok(pares_basico(Ascendente(S), 1))
    /\ tam_ventana' = 0
    /\ UNCHANGED frontVars

NextEngine ==
    \/ \E n \in Limites : LlamarCriba(n)
    \/ \E n \in Limites : LlamarGemelosOptimizado(n)
    \/ \E n \in Limites : LlamarEsPrimo(n)
    \/ \E n \in Limites : LlamarGenerarPrimos(n)
    \/ \E n \in Limites : LlamarGemelosBasico(n)
    \/ \E n \in Limites : LlamarCompararRendimiento(n)
    \/ \E S \in SUBSET (1..MaxValor) : EscanearOptimizado(S)
    \/ \E S \in SUBSET (1..MaxValor) : EscanearBasico(S)

----------------------------------------------------------------------------
(* Front ends: what the user can type, and the record of what happened *)

Entero(v) == [num |-> TRUE, val |-> v]
NoEntero == [num |-> FALSE, val |-> 0]

\* tk.IntVar(value=100)
LimiteInicial == 100

Campos ==
    {Entero(v) : v \in (0 - MinCampoNeg)..MaxCampo}
        \cup {NoEntero, Entero(LimiteInicial)}

Metodos == {"basico", "optimizado"}

Llamada(fn, lim) == [fn |-> fn, limite |-> lim]

\* a front-end step: its name, how it ended, the limit it was given and the
\* engine calls it made, in order
Evento(nombre, salida, campo, llamadas) ==
    [nombre |-> nombre, salida |-> salida, campo |-> campo, llamadas |-> llamadas]

Rechazos == {"error_positivo", "error_entero", "error_excepcion"}

Estado(texto, pares) == [texto |-> texto, pares |-> pares]

\* a thread of generar_primos: where it stands, the limit its closure
\* captured, the method it read and the list it computed
Hilo(pc, lim, metodo, resultado) ==
    [pc |-> pc, limite |-> lim, metodo |-> metodo, resultado |-> resultado]

HiloLibre == Hilo("libre", 0, "ninguno", <<>>)

\* the limit and method a list was computed with; SinOrigen for the list of
\* __init__ and of limpiar, which no engine call produced
Origen(lim, metodo) == [limite |-> lim, metodo |-> metodo]
SinOrigen == Origen(0, "ninguno")

\* a request of the user that decides what self.gemelos should hold
Peticion(tipo, lim) == [tipo |-> tipo, limite |-> lim]

InitFront ==
    /\ programa = "ninguno"
    /\ consola_pc = "pide_limite"
    /\ menu_gemelos = <<>>
    /\ gemelos = <<>>
    /\ campo_limite = Entero(LimiteInicial)
    /\ method_var = "optimizado"
    /\ status_var = Estado("Listo", 0)
    /\ hilos = [h \in 1..MaxHilos |-> HiloLibre]
    /\ dialogo = "cerrado"
    /\ origen = SinOrigen
    /\ ultima = Peticion("ninguna", 0)
    /\ evento = Evento("ninguno", "ok", Entero(LimiteInicial), <<>>)

guiVars == <<gemelos, campo_limite, method_var, status_var, hilos, dialogo,
             origen, ultima>>
consolaVars == <<consola_pc, menu_gemelos>>

\* the user starts one of the programs
Lanzar(p) ==
    /\ programa = "ninguno"
    /\ programa' = p
    /\ evento' = Evento("lanzar", "ok", Entero(LimiteInicial), <<>>)
    /\ UNCHANGED <<consolaVars, guiVars, engineVars>>

----------------------------------------------------------------------------
(* gemelos.py: menu *)

\* the input loop of menu: int(input(...)), limite <= 0, else the engine runs
MenuLeerLimite(c) ==
    /\ programa = "menu"
    /\ consola_pc = "pide_limite"
    /\ IF ~c.num
       THEN /\ evento' = Evento("menu_limite", "error_entero", c, <<>>)
            /\ UNCHANGED consolaVars
       ELSE IF c.val <= 0
       THEN /\ evento' = Evento("menu_limite", "error_positivo", c, <<>>)
            /\ UNCHANGED consolaVars
       ELSE /\ menu_gemelos' = encontrar_primos_gemelos(c.val).valor
            /\ consola_pc' = "opciones"
            /\ evento' = Evento("menu_limite", "ok", c,
                                <<Llamada("encontrar_primos_gemelos", c.val)>>)
    /\ UNCHANGED <<programa, guiVars, engineVars>>

\* the option loop of menu: 0 leaves, 1..5 draw, 6 asks for a new limit
MenuOpcion(o) ==
    /\ programa = "menu"
    /\ consola_pc = "opciones"
    /\ consola_pc' = CASE o = "salir" -> "fin"
                       [] o = "cambiar_limite" -> "pide_limite"
                       [] OTHER -> "opciones"
    /\ evento' = Evento("menu_opcion", o, Entero(LimiteInicial), <<>>)
    /\ UNCHANGED <<programa, menu_gemelos, guiVars, engineVars>>

----------------------------------------------------------------------------
(* estadisticas.py: __main__ and the engine calls of visualizar_analisis_completo *)
(* (line 121, the 20 calls of comparar_con_pi at line 161, line 179)             *)

EstadisticasLeerLimite(c) ==
    /\ programa = "estadisticas"
    /\ consola_pc = "pide_limite"
    /\ IF ~c.num
       THEN /\ evento' = Evento("estadisticas_limite", "error_entero", c, <<>>)
            /\ UNCHANGED consola_pc
       ELSE IF c.val <= 0
       THEN /\ evento' = Evento("estadisticas_limite", "error_positivo", c, <<>>)
            /\ UNCHANGED consola_pc
       ELSE /\ consola_pc' = "fin"
            /\ \E extremo \in extremos_posibles(c.val) :
                 evento' = Evento("estadisticas_limite", "ok", c,
                     <<Llamada("encontrar_primos_gemelos_optimizado", c.val)>>
                     \o [k \in 1..NumLimitesEscala |->
                            Llamada("encontrar_primos_gemelos_optimizado",
                                    limites_escala(c.val, extremo)[k])]
                     \o <<Llamada("criba_eratostenes", c.val)>>)
    /\ UNCHANGED <<programa, menu_gemelos, guiVars, engineVars>>

----------------------------------------------------------------------------
(* interfaz.py: PrimosGemelosGUI *)

\* While the save dialog of exportar_csv is open it holds the grab: the
\* buttons and entries of the main window get no events, but the dialog runs
\* the event loop, so the threads go on and the callbacks of root.after run.

\* the user edits the entry bound to self.limite
EditarLimite(c) ==
    /\ programa = "gui"
    /\ dialogo = "cerrado"
    /\ c # campo_limite
    /\ campo_limite' = c
    /\ evento' = Evento("editar_limite", "ok", c, <<>>)
    /\ UNCHANGED <<programa, consolaVars, gemelos, method_var, status_var, hilos,
                   dialogo, origen, ultima, engineVars>>

\* the user picks a method in the combo box bound to self.method_var
EditarMetodo(m) ==
    /\ programa = "gui"
    /\ dialogo = "cerrado"
    /\ m # method_var
    /\ method_var' = m
    /\ evento' = Evento("editar_metodo", "ok", campo_limite, <<>>)
    /\ UNCHANGED <<programa, consolaVars, gemelos, campo_limite, status_var, hilos,
                   dialogo, origen, ultima, engineVars>>

\* generar_primos: the handler of the button Generar, up to thread.start()
Generar ==
    /\ programa = "gui"
    /\ dialogo = "cerrado"
    /\ IF ~campo_limite.num
       THEN \* self.limite.get() raises, caught by except Exception
            /\ status_var' = Estado("Error en la generacion", 0)
            /\ evento' = Evento("generar", "error_excepcion", campo_limite, <<>>)
            /\ UNCHANGED <<hilos, ultima>>
       ELSE IF campo_limite.val <= 0
       THEN /\ evento' = Evento("generar", "error_positivo", campo_limite, <<>>)
            /\ UNCHANGED <<status_var, hilos, ultima>>
       ELSE /\ \E h \in 1..MaxHilos :
                 /\ hilos[h].pc = "libre"
                 /\ \A g \in 1..(h - 1) : hilos[g].pc # "libre"
                 /\ hilos' = [hilos EXCEPT ![h] =
                        Hilo("inicio", campo_limite.val, "ninguno", <<>>)]
            /\ status_var' = Estado("Generando primos gemelos...", 0)
            /\ ultima' = Peticion("generar", campo_limite.val)
            /\ evento' = Evento("generar", "ok", campo_limite, <<>>)
    /\ UNCHANGED <<programa, consolaVars, gemelos, campo_limite, method_var,
                   dialogo, origen, engineVars>>

\* what the two engines return for the limits Generar can hand to a thread,
\* computed once
motor_por_limite ==
    [lim \in (1..MaxCampo) \cup {LimiteInicial} |->
        [basico |-> encontrar_primos_gemelos(lim),
         optimizado |-> encontrar_primos_gemelos_optimizado(lim)]]

\* generate_thread: reads self.method_var and calls the engine on the limit
\* the handler captured; an exception of the engine ends the thread
HiloCalcula(h) ==
    /\ programa = "gui"
    /\ hilos[h].pc = "inicio"
    /\ LET fn == IF method_var = "basico"
                 THEN "encontrar_primos_gemelos"
                 ELSE "encontrar_primos_gemelos_optimizado"
           r == IF method_var = "basico"
                THEN motor_por_limite[hilos[h].limite].basico
                ELSE motor_por_limite[hilos[h].limite].optimizado
       IN  /\ hilos' = [hilos EXCEPT ![h] =
                  IF r.estado = "ok"
                  THEN Hilo("calculado", hilos[h].limite, method_var, r.valor)
                  ELSE HiloLibre]
           /\ evento' = Evento("hilo_calcula", r.estado, campo_limite,
                               <<Llamada(fn, hilos[h].limite)>>)
    /\ UNCHANGED <<programa, consolaVars, gemelos, campo_limite, method_var,
                   status_var, dialogo, origen, ultima, engineVars>>

\* generate_thread: self.gemelos = ..., then root.after(0, mostrar_resultados)
HiloAsigna(h) ==
    /\ programa = "gui"
    /\ hilos[h].pc = "calculado"
    /\ gemelos' = hilos[h].resultado
    /\ origen' = Origen(hilos[h].limite, hilos[h].metodo)
    /\ hilos' = [hilos EXCEPT ![h] = Hilo("after", 0, "ninguno", <<>>)]
    /\ evento' = Evento("hilo_asigna", "ok", campo_limite, <<>>)
    /\ UNCHANGED <<programa, consolaVars, campo_limite, method_var, status_var,
                   dialogo, ultima, engineVars>>

\* mostrar_resultados, run by the main loop for the callback of thread h:
\* it shows self.limite.get(), self.method_var.get() and self.gemelos as
\* they stand; self.limite.get() raises on a text that is no integer, before
\* the status is set
MostrarResultados(h) ==
    /\ programa = "gui"
    /\ hilos[h].pc = "after"
    /\ hilos' = [hilos EXCEPT ![h] = HiloLibre]
    /\ IF campo_limite.num
       THEN /\ status_var' = Estado("Generacion completada", Len(gemelos))
            /\ evento' = Evento("mostrar_resultados", "ok", campo_limite, <<>>)
       ELSE /\ UNCHANGED status_var
            /\ evento' = Evento("mostrar_resultados", "excepcion", campo_limite, <<>>)
    /\ UNCHANGED <<programa, consolaVars, gemelos, campo_limite, method_var,
                   dialogo, origen, ultima, engineVars>>

\* todos_primos of mostrar_estadisticas: criba_eratostenes(self.limite.get())
\* with method "optimizado" (line 346), [] otherwise (line 357)
todos_primos_estadisticas(campo, metodo) ==
    IF metodo = "optimizado" THEN criba_eratostenes(campo.val) ELSE Ok(<<>>)

\* how mostrar_estadisticas ends for a list of at least 2 pairs:
\* with method "optimizado" it calls criba_eratostenes(self.limite.get()) and
\* divides by len(todos_primos); it always divides by self.limite.get()
salida_estadisticas(campo, metodo, todos_primos) ==
    IF ~campo.num THEN "excepcion"
    ELSE IF metodo = "optimizado"
    THEN IF todos_primos.estado # "ok" THEN "excepcion"
         ELSE IF Len(todos_primos.valor) = 0 THEN "excepcion"
         ELSE "ventana"
    ELSE IF campo.val = 0 THEN "excepcion" ELSE "ventana"

\* what the window of mostrar_estadisticas displays besides the mean, median
\* and deviation: the limit it names (line 378), the mode and its frequency
\* (lines 334-336, 389) and, with method "optimizado", the number of primes,
\* the "primes in twin pairs" and their proportion (lines 347, 416-418)
informe_estadisticas(g, distancias, campo, metodo, todos_primos) ==
    LET cima == most_common_1(Counter(distancias))
    IN  [limite_mostrado |-> campo.val,
         moda |-> cima.valor,
         freq_moda |-> cima.veces,
         con_proporcion |-> metodo = "optimizado",
         cantidad_primos |-> Len(todos_primos.valor),
         primos_en_pares |-> Len(g) * 2,
         proporcion |->
             IF metodo = "optimizado"
             THEN Fraccion(Len(g) * 2, Len(todos_primos.valor))
             ELSE Fraccion(0, 1)]

\* mostrar_estadisticas on self.gemelos = g: the two early returns, then the
\* statistics and the regression on the gap series
mostrar_estadisticas(g, campo, metodo) ==
    IF Len(g) = 0 THEN Vista("info_sin_gemelos", <<>>, FALSE, FALSE)
    ELSE LET distancias == distancias_gui_estadisticas(g)
         IN  IF Len(distancias) = 0
             THEN Vista("info_insuficiente", <<>>, FALSE, FALSE)
             ELSE LET todos_primos == todos_primos_estadisticas(campo, metodo)
                      salida == salida_estadisticas(campo, metodo, todos_primos)
                  IN  IF salida = "ventana"
                      THEN Vista(salida, distancias, TRUE, TRUE)
                           @@ informe_estadisticas(g, distancias, campo, metodo,
                                                   todos_primos)
                      ELSE Vista(salida, distancias, TRUE, TRUE)

\* mostrar_estadisticas: the handler of the button Estadisticas
MostrarEstadisticas ==
    /\ programa = "gui"
    /\ dialogo = "cerrado"
    /\ LET v == mostrar_estadisticas(gemelos, campo_limite, method_var)
       IN  evento' = Evento("estadisticas", v.salida, campo_limite,
                            IF v.estadisticas /\ method_var = "optimizado"
                                   /\ campo_limite.num
                            THEN <<Llamada("criba_eratostenes", campo_limite.val)>>
                            ELSE <<>>)
    /\ UNCHANGED <<programa, consolaVars, guiVars, engineVars>>

\* limpiar: the handler of the button Limpiar
Limpiar ==
    /\ programa = "gui"
    /\ dialogo = "cerrado"
    /\ gemelos' = <<>>
    /\ origen' = SinOrigen
    /\ ultima' = Peticion("limpiar", 0)
    /\ status_var' = Estado("Listo", 0)
    /\ evento' = Evento("limpiar", "ok", campo_limite, <<>>)
    /\ UNCHANGED <<programa, consolaVars, campo_limite, method_var, hilos,
                   dialogo, engineVars>>

\* writer.writerow(["Indice", "Primer Primo", "Segundo Primo", "Diferencia"])
encabezado_csv == <<"Indice", "Primer Primo", "Segundo Primo", "Diferencia">>

\* for i, par in enumerate(self.gemelos):
\*     writer.writerow([i+1, int(par[0]), int(par[1]), int(par[1])-int(par[0])])
filas_csv(g) ==
    [i \in 1..Len(g) |-> <<i, g[i][1], g[i][2], g[i][2] - g[i][1]>>]

\* the file the handler leaves behind
Archivo(encabezado, filas) == [encabezado |-> encabezado, filas |-> filas]

\* an event of exportar_csv that wrote a file
EventoArchivo(nombre, salida, campo, archivo) ==
    [nombre |-> nombre, salida |-> salida, campo |-> campo, llamadas |-> <<>>,
     archivo |-> archivo]

\* exportar_csv: the handler of the button Exportar CSV, from the test of
\* self.gemelos (line 518) to the call of asksaveasfilename (line 523)
ExportarCSV ==
    /\ programa = "gui"
    /\ dialogo = "cerrado"
    /\ IF Len(gemelos) = 0
       THEN /\ evento' = Evento("exportar_csv", "info_sin_gemelos", campo_limite, <<>>)
            /\ UNCHANGED dialogo
       ELSE /\ dialogo' = "abierto"
            /\ evento' = Evento("exportar_csv", "dialogo", campo_limite, <<>>)
    /\ UNCHANGED <<programa, consolaVars, gemelos, campo_limite, method_var,
                   status_var, hilos, origen, ultima, engineVars>>

\* exportar_csv, once asksaveasfilename returns: the user cancelled (line
\* 529), or the file is opened and written from self.gemelos as it stands
\* then (lines 533-543), or open raises (lines 545-547)
ExportarEscribe(respuesta) ==
    /\ programa = "gui"
    /\ dialogo = "abierto"
    /\ dialogo' = "cerrado"
    /\ CASE respuesta = "cancelar" ->
              /\ evento' = Evento("exportar_escribe", "cancelado", campo_limite, <<>>)
              /\ UNCHANGED status_var
         [] respuesta = "guardar" ->
              /\ evento' = EventoArchivo("exportar_escribe", "ok", campo_limite,
                                Archivo(encabezado_csv, filas_csv(gemelos)))
              /\ status_var' = Estado("Primos gemelos exportados", 0)
         [] respuesta = "fallo" ->
              /\ evento' = Evento("exportar_escribe", "error_excepcion",
                                  campo_limite, <<>>)
              /\ status_var' = Estado("Error en la exportacion", 0)
    /\ UNCHANGED <<programa, consolaVars, gemelos, campo_limite, method_var,
                   hilos, origen, ultima, engineVars>>

NextFront ==
    \/ \E p \in {"menu", "estadisticas", "gui"} : Lanzar(p)
    \/ \E c \in Campos : MenuLeerLimite(c)
    \/ \E o \in {"salir", "visualizar", "cambiar_limite", "invalida"} : MenuOpcion(o)
    \/ \E c \in Campos : EstadisticasLeerLimite(c)
    \/ \E c \in Campos : EditarLimite(c)
    \/ \E m \in Metodos : EditarMetodo(m)
    \/ Generar
    \/ \E h \in 1..MaxHilos : HiloCalcula(h)
    \/ \E h \in 1..MaxHilos : HiloAsigna(h)
    \/ \E h \in 1..MaxHilos : MostrarResultados(h)
    \/ MostrarEstadisticas
    \/ Limpiar
    \/ ExportarCSV
    \/ \E respuesta \in {"cancelar", "guardar", "fallo"} : ExportarEscribe(respuesta)

----------------------------------------------------------------------------
(* The analyses of the gap series, each applied to every list of pairs *)

\* the pairs (p, p + 2) for the p of S, in ascending order
ParesDe(S) ==
    LET a == Ascendente(S) IN [i \in 1..Len(a) |-> <<a[i], a[i] + 2>>]

\* the lists the analyses are given: what the engine returns for a limit, and
\* every ascending list of pairs (p, p + 2) over 1..MaxValor (the analyses do
\* not look at primality)
ListasDePares ==
    {encontrar_primos_gemelos_optimizado(n).valor : n \in 1..MaxLimite}
        \cup {ParesDe(S) : S \in SUBSET (1..MaxValor)}

\* visualizar_analisis_completo(n): the list of the engine goes to the gap
\* analysis (estadisticas.py:121 and 143)
AnalizarDistanciasHasta(n) ==
    /\ op' = "analizar_distancias_entre_gemelos"
    /\ limite' = n
    /\ entrada' = encontrar_primos_gemelos_optimizado(n).valor
    /\ tam_ventana' = 0
    /\ res' = analizar_distancias_entre_gemelos(
                  encontrar_primos_gemelos_optimizado(n).valor)
    /\ UNCHANGED frontVars

AnalizarDistanciasDe(g) ==
    /\ op' = "analizar_distancias_entre_gemelos"
    /\ limite' = 0
    /\ entrada' = g
    /\ tam_ventana' = 0
    /\ res' = analizar_distancias_entre_gemelos(g)
    /\ UNCHANGED frontVars

LlamarHistogramaDistancias(g) ==
    /\ op' = "visualizar_histograma_distancias"
    /\ limite' = 0
    /\ entrada' = g
    /\ tam_ventana' = 0
    /\ res' = Ok(visualizar_histograma_distancias(g))
    /\ UNCHANGED frontVars

LlamarTendencia(g) ==
    /\ op' = "visualizar_tendencia"
    /\ limite' = 0
    /\ entrada' = g
    /\ tam_ventana' = 0
    /\ res' = Ok(visualizar_tendencia(g, 0))
    /\ UNCHANGED frontVars

\* the handler mostrar_estadisticas of a GUI whose self.gemelos is g, with
\* the entry and the method as they stand
LlamarMostrarEstadisticas(g) ==
    /\ op' = "mostrar_estadisticas"
    /\ limite' = 0
    /\ entrada' = g
    /\ tam_ventana' = 0
    /\ res' = Ok(mostrar_estadisticas(g, campo_limite, method_var))
    /\ UNCHANGED frontVars

\* a GUI session: Generar with limit n and the method as it stands, then
\* the button Estadisticas with the entry still at n
EstadisticasHasta(n) ==
    /\ op' = "mostrar_estadisticas"
    /\ limite' = n
    /\ entrada' = encontrar_primos_gemelos_optimizado(n).valor
    /\ tam_ventana' = 0
    /\ res' = Ok(mostrar_estadisticas(
                     encontrar_primos_gemelos_optimizado(n).valor,
                     Entero(n), method_var))
    /\ UNCHANGED frontVars

NextEstadisticas ==
    \/ \E n \in 1..MaxLimite : EstadisticasHasta(n)
    \/ \E n \in 1..MaxLimite : AnalizarDistanciasHasta(n)
    \/ \E g \in ListasDePares : AnalizarDistanciasDe(g)
    \/ \E g \in ListasDePares : LlamarHistogramaDistancias(g)
    \/ \E g \in ListasDePares : LlamarTendencia(g)
    \/ \E g \in ListasDePares : LlamarMostrarEstadisticas(g)

----------------------------------------------------------------------------
(* The windowed analyses, each applied to every argument *)

LlamarDensidad(n, w) ==
    /\ op' = "calcular_densidad"
    /\ limite' = n
    /\ entrada' = encontrar_primos_gemelos_optimizado(n).valor
    /\ tam_ventana' = w
    /\ res' = calcular_densidad(encontrar_primos_gemelos_optimizado(n).valor, n, w)
    /\ UNCHANGED frontVars

LlamarDensidadSinVentana(n) ==
    /\ op' = "calcular_densidad_defecto"
    /\ limite' = n
    /\ entrada' = encontrar_primos_gemelos_optimizado(n).valor
    /\ tam_ventana' = 0
    /\ res' = calcular_densidad_defecto(
                  encontrar_primos_gemelos_optimizado(n).valor, n)
    /\ UNCHANGED frontVars

\* visualizar_analisis_completo(n): the density panel (lines 121, 131, 132)
AnalisisDensidad(n) ==
    /\ op' = "analisis_densidad"
    /\ limite' = n
    /\ entrada' = encontrar_primos_gemelos_optimizado(n).valor
    /\ tam_ventana' = tam_ventana_analisis(n)
    /\ res' = calcular_densidad(encontrar_primos_gemelos_optimizado(n).valor, n,
                                tam_ventana_analisis(n))
    /\ UNCHANGED frontVars

\* visualizar_analisis_completo(n): the ratio panel (lines 121, 179-199)
AnalisisProporcion(n) ==
    /\ op' = "analisis_proporcion"
    /\ limite' = n
    /\ entrada' = encontrar_primos_gemelos_optimizado(n).valor
    /\ tam_ventana' = 0
    /\ res' = proporcion_por_ventana(
                  encontrar_primos_gemelos_optimizado(n).valor, n)
    /\ UNCHANGED frontVars

LlamarCompararConPi(n, extremo) ==
    /\ op' = "comparar_con_pi"
    /\ limite' = n
    /\ entrada' = <<>>
    /\ tam_ventana' = 0
    /\ res' = comparar_con_pi(n, extremo)
    /\ UNCHANGED frontVars

NextAnalisis ==
    \/ \E n \in (1..MaxLimite) \cup {100 * MinCentenas} :
           \E extremo \in extremos_posibles(n) : LlamarCompararConPi(n, extremo)
    \/ \E n \in 1..MaxLimite, w \in 1..MaxVentana : LlamarDensidad(n, w)
    \/ \E n \in (1..MaxLimite) \cup LimitesGrandes : LlamarDensidadSinVentana(n)
    \/ \E n \in (1..MaxLimite) \cup LimitesGrandes : AnalisisDensidad(n)
    \/ \E n \in (1..MaxLimite) \cup LimitesGrandes : AnalisisProporcion(n)

vars == <<op, limite, entrada, tam_ventana, res, programa, consola_pc, menu_gemelos, gemelos,
          campo_limite, method_var, status_var, hilos, dialogo, origen, ultima,
          evento>>

Init == InitEngine /\ InitFront

Next == NextEngine \/ NextEstadisticas

\* the engine functions, each applied to every argument within the bounds
Spec == Init /\ [][Next]_vars

NextFrontEnd == NextFront

\* the windowed analyses of estadisticas.py, each applied to every argument
\* within the bounds
SpecAnalisis == Init /\ [][NextAnalisis]_vars

\* the three front ends under every sequence of user actions
SpecFrontEnd == Init /\ [][NextFrontEnd]_vars

\* what the scheduling guarantees: a thread that was started runs to its end
\* (the engine terminates and the interpreter schedules every thread), and
\* the main loop, which also runs inside the save dialog, calls every
\* callback handed to root.after; the user is never obliged to act
Equidad ==
    \A h \in 1..MaxHilos :
        /\ WF_vars(HiloCalcula(h))
        /\ WF_vars(HiloAsigna(h))
        /\ WF_vars(MostrarResultados(h))

\* the front ends with the threads and the main loop scheduled fairly
SpecFrontEndJusto == Init /\ [][NextFrontEnd]_vars /\ Equidad

----------------------------------------------------------------------------
(* Reference notions the claims are stated with *)

\* n is a prime number: at least 2 and without a divisor strictly between 1 and n
EsPrimoDef(n) == n >= 2 /\ \A d \in 2..(n - 1) : n % d # 0

\* the elements of a sequence
Elementos(s) == {s[k] : k \in 1..Len(s)}

\* s is strictly increasing
EstrictamenteCreciente(s) == \A k \in 1..(Len(s) - 1) : s[k] < s[k + 1]

----------------------------------------------------------------------------
(* Claims about the engine, checked under Spec *)

\* C1: for every limit N >= 0 the sieve (criba_eratostenes) and the naive
\* generator (generar_primos) return the same ordered sequence, element by
\* element.
C1_CribaIgualQueBasico ==
    (op = "criba_eratostenes" /\ limite >= 0)
        => (res.estado = "ok" /\ res.valor = generar_primos(limite).valor)

\* C2: the sequence criba_eratostenes(N) returns is strictly increasing, every
\* element lies in [2, N] and is prime, and every prime <= N occurs in it.
C2_CribaCorrecta ==
    (op = "criba_eratostenes" /\ res.estado = "ok")
        => /\ EstrictamenteCreciente(res.valor)
           /\ \A k \in 1..Len(res.valor) :
                 res.valor[k] \in 2..limite /\ EsPrimoDef(res.valor[k])
           /\ \A p \in 2..limite : EsPrimoDef(p) => p \in Elementos(res.valor)

\* C2 witness: the sieve has run for N = 25, where the outer loop reaches
\* i = 5 = floor(sqrt(25)) and marks 25 = i*i itself.
C2_Testigo ==
    /\ op = "criba_eratostenes"
    /\ limite = 25
    /\ res = Ok(<<2, 3, 5, 7, 11, 13, 17, 19, 23>>)

\* C3: for every limit N >= 1, encontrar_primos_gemelos_optimizado(N) returns
\* a list that contains (p, q) if and only if q = p + 2, p and q are prime and
\* q <= N; both members of every pair occur in the prime sequence for N.
C3_GemelosExactos ==
    (op = "encontrar_primos_gemelos_optimizado" /\ limite >= 1)
        => /\ res.estado = "ok"
           /\ \A k \in 1..Len(res.valor) :
                 LET p == res.valor[k][1]
                     q == res.valor[k][2]
                 IN  /\ Len(res.valor[k]) = 2
                     /\ q = p + 2 /\ EsPrimoDef(p) /\ EsPrimoDef(q) /\ q <= limite
                     /\ p \in Elementos(criba_eratostenes(limite).valor)
                     /\ q \in Elementos(criba_eratostenes(limite).valor)
           /\ \A p \in 0..limite :
                 (EsPrimoDef(p) /\ EsPrimoDef(p + 2) /\ p + 2 <= limite)
                     => <<p, p + 2>> \in Elementos(res.valor)

\* C3 witness: the extraction has run for N = 20 and found its four pairs.
C3_Testigo ==
    /\ op = "encontrar_primos_gemelos_optimizado"
    /\ limite = 20
    /\ res = Ok(<< <<3, 5>>, <<5, 7>>, <<11, 13>>, <<17, 19>> >>)

\* the adjacent pairs of e, in order
Adyacentes(e) == [i \in 1..(Len(e) - 1) |-> <<e[i], e[i + 1]>>]

DistanDos(par) == par[2] - par[1] = 2

\* C4: for any strictly increasing input the scan emits (primes[i],
\* primes[i+1]) exactly for the indices i with primes[i+1] - primes[i] = 2, in
\* ascending order of the first element, each pair once; 3,5,7 yields (3,5)
\* and (5,7).
C4_EscaneoAdyacente ==
    (op \in {"escanear_optimizado", "escanear_basico"})
        => /\ EstrictamenteCreciente(entrada)
           /\ res.valor = SelectSeq(Adyacentes(entrada), DistanDos)
           /\ \A j, k \in 1..Len(res.valor) :
                 j < k => res.valor[j][1] < res.valor[k][1]
           /\ (entrada = <<3, 5, 7>> => res.valor = << <<3, 5>>, <<5, 7>> >>)

\* C4 witness: the scan has run on the overlapping triplet 3, 5, 7.
C4_Testigo ==
    /\ op = "escanear_basico"
    /\ entrada = <<3, 5, 7>>
    /\ res = Ok(<< <<3, 5>>, <<5, 7>> >>)

\* C5: for every limit the naive path (encontrar_primos_gemelos) and the sieve
\* path (encontrar_primos_gemelos_optimizado) produce the same list of pairs,
\* pair by pair and in order.
C5_CaminosIguales ==
    (op = "encontrar_primos_gemelos_optimizado" /\ limite >= 0)
        => res = encontrar_primos_gemelos(limite)

\* C6: for limit 0 and limit 1 the sieve returns the empty sequence and the
\* extraction the empty list, without an error; for limit 2 the sieve returns
\* exactly [2].
C6_LimitesPequenos ==
    /\ (op = "criba_eratostenes" /\ limite \in {0, 1}) => res = Ok(<<>>)
    /\ (op = "encontrar_primos_gemelos_optimizado" /\ limite \in {0, 1})
           => res = Ok(<<>>)
    /\ (op = "criba_eratostenes" /\ limite = 2) => res = Ok(<<2>>)

\* C7: a negative limit is rejected before the marker array is allocated, and
\* a negative limit is the only input for which the sieve fails.
C7_SoloNegativoFalla ==
    (op = "criba_eratostenes")
        => /\ (res.estado # "ok") <=> (limite < 0)
           /\ (limite < 0) => ~res.asignado

\* C9: es_primo(n) is false for every n < 2, and for n >= 2 it is true exactly
\* when no d with 2 <= d <= floor(sqrt(n)) divides n, that is, exactly when
\* n is prime.
C9_EsPrimoCorrecto ==
    (op = "es_primo")
        => /\ (limite < 2) => (res.valor = FALSE)
           /\ (limite >= 2) =>
                 /\ res.valor = (\A d \in 2..limite : d * d <= limite => limite % d # 0)
                 /\ res.valor = EsPrimoDef(limite)

\* C9 witness: es_primo has run on 25, whose only proper divisor is exactly
\* floor(sqrt(25)), the last divisor the loop tries.
C9_Testigo ==
    /\ op = "es_primo"
    /\ limite = 25
    /\ res = Ok(FALSE)

----------------------------------------------------------------------------
(* Claims about the front ends, checked under SpecFrontEnd *)

\* C8: in every front end (console menu, statistics main, GUI Generar) a
\* limit that is <= 0 or not an integer is rejected with a validation message
\* and the engine is not invoked; consequently, over any sequence of user
\* actions, the engine functions are only ever invoked with a limit >= 1.
C8_LimiteValidado ==
    /\ (/\ evento.nombre \in {"menu_limite", "estadisticas_limite", "generar"}
        /\ (~evento.campo.num \/ evento.campo.val <= 0))
           => (evento.salida \in Rechazos /\ evento.llamadas = <<>>)
    /\ \A k \in 1..Len(evento.llamadas) : evento.llamadas[k].limite >= 1

\* C10: calling the engine twice with the same limit, with other engine calls
\* in between, yields identical prime sequences and pair lists.  Every engine
\* function is an operator of its argument alone here, so the statement
\* compares two evaluations of one operator and is not stated as a formula.

----------------------------------------------------------------------------
(* Claims about the small limits and the statistics, checked under Spec *)

\* C11: for limit 4 the engine returns the primes [2, 3] and no twin pair
\* ((3, 5) is left out because 5 > 4); for limit 5 it returns the primes
\* [2, 3, 5] and the twin pairs [(3, 5)].  Both paths of the engine are held
\* to it.
C11_LimitesCuatroYCinco ==
    /\ (op \in {"criba_eratostenes", "generar_primos"} /\ limite = 4)
           => res = Ok(<<2, 3>>)
    /\ (op \in {"encontrar_primos_gemelos_optimizado", "encontrar_primos_gemelos"}
           /\ limite = 4) => res = Ok(<<>>)
    /\ (op \in {"criba_eratostenes", "generar_primos"} /\ limite = 5)
           => res = Ok(<<2, 3, 5>>)
    /\ (op \in {"encontrar_primos_gemelos_optimizado", "encontrar_primos_gemelos"}
           /\ limite = 5) => res = Ok(<< <<3, 5>> >>)

\* C11 witness: the sieve path has run for limit 5, the first limit that
\* admits the pair (3, 5).
C11_Testigo ==
    /\ op = "encontrar_primos_gemelos_optimizado"
    /\ limite = 5
    /\ res = Ok(<< <<3, 5>> >>)

\* the analyses that draw or report on the gap series
Vistas == {"visualizar_histograma_distancias", "visualizar_tendencia",
           "mostrar_estadisticas"}

\* C12 as stated: with limit 4 the engine yields exactly one twin pair,
\* (3, 5), and the gap analysis of that list is the insufficient-data case
\* returning ([], 0, 0, 0).
C12_UnParConLimiteCuatro ==
    (op = "analizar_distancias_entre_gemelos" /\ limite = 4)
        => (entrada = << <<3, 5>> >> /\ res = Ok(AnalisisVacio))

\* C12 amended: with limit 4 the engine yields no twin pair, and with limit 5
\* exactly the pair (3, 5); either list is the insufficient-data case: the gap
\* analysis returns ([], 0, 0, 0) and the trend view returns without a series.
C12_SinParConLimiteCuatro ==
    (op = "analizar_distancias_entre_gemelos" /\ limite \in {4, 5})
        => /\ limite = 4 => entrada = <<>>
           /\ limite = 5 => entrada = << <<3, 5>> >>
           /\ res = Ok(AnalisisVacio)
           /\ visualizar_tendencia(entrada, limite)
                  = Vista("insuficiente", <<>>, FALSE, FALSE)

\* C12 witness: the gap analysis has run on the (empty) list of limit 4.
C12_Testigo ==
    /\ op = "analizar_distancias_entre_gemelos"
    /\ limite = 4
    /\ entrada = <<>>
    /\ res = Ok(AnalisisVacio)

\* C13: for limit 20 the twin-pair list is [(3,5), (5,7), (11,13), (17,19)],
\* the gap series computed from it is [2, 6, 6] and its mean is 14/3.
C13_LimiteVeinte ==
    (op = "analizar_distancias_entre_gemelos" /\ limite = 20)
        => /\ entrada = << <<3, 5>>, <<5, 7>>, <<11, 13>>, <<17, 19>> >>
           /\ res.estado = "ok"
           /\ res.valor.distancias = <<2, 6, 6>>
           /\ res.valor.media.den # 0
           /\ 3 * res.valor.media.num = 14 * res.valor.media.den

\* C13 witness: the gap analysis has run on the list of limit 20.
C13_Testigo ==
    /\ op = "analizar_distancias_entre_gemelos"
    /\ limite = 20
    /\ res.valor.distancias = <<2, 6, 6>>
    /\ res.valor.media = Fraccion(14, 3)

\* the series the statement defines: one entry less than pairs, the i-th
\* being first(pair[i+1]) - first(pair[i])
EsSerieDeDistancias(d, g) ==
    /\ Len(d) = Len(g) - 1
    /\ \A i \in 1..(Len(g) - 1) : d[i] = g[i + 1][1] - g[i][1]

\* C14: for every list with at least 2 pairs the gap series has length
\* (#pairs - 1) and its i-th entry is first(pair[i+1]) - first(pair[i]);
\* the statistics module, the trend and histogram views (console and GUI)
\* and the GUI statistics all derive that same series from the same list.
C14_MismaSerie ==
    (op \in Vistas \cup {"analizar_distancias_entre_gemelos"}
        /\ Len(entrada) >= 2)
        => /\ EsSerieDeDistancias(res.valor.distancias, entrada)
           /\ analizar_distancias_entre_gemelos(entrada).valor.distancias
                  = res.valor.distancias
           /\ visualizar_histograma_distancias(entrada).distancias
                  = res.valor.distancias
           /\ visualizar_tendencia(entrada, limite).distancias
                  = res.valor.distancias
           /\ distancias_gui_tendencia(entrada) = res.valor.distancias
           /\ distancias_gui_histograma(entrada) = res.valor.distancias
           /\ mostrar_estadisticas(entrada, campo_limite, method_var).distancias
                  = res.valor.distancias

\* C14 witness: the trend view has derived the series of a list of four pairs
\* whose gaps differ.
C14_Testigo ==
    /\ op = "visualizar_tendencia"
    /\ entrada = << <<1, 3>>, <<2, 4>>, <<4, 6>>, <<7, 9>> >>
    /\ res.valor.distancias = <<1, 2, 3>>

\* C15: every analysis that needs at least 2 pairs ends normally on 0 or 1
\* pairs: analizar_distancias_entre_gemelos returns ([], 0, 0, 0), and the
\* views return without an error, without statistics and without a
\* regression on an empty series.
C15_PocosPares ==
    (Len(entrada) < 2)
        => /\ (op = "analizar_distancias_entre_gemelos")
                 => res = Ok(AnalisisVacio)
           /\ (op \in Vistas)
                 => /\ res.estado = "ok"
                    /\ res.valor.salida \in
                          {"insuficiente", "info_sin_gemelos", "info_insuficiente"}
                    /\ res.valor.distancias = <<>>
                    /\ ~res.valor.estadisticas
                    /\ ~res.valor.regresion

\* C15 witness: the histogram view has been given a single pair.
C15_Testigo ==
    /\ op = "visualizar_histograma_distancias"
    /\ Len(entrada) = 1
    /\ res.valor.salida = "insuficiente"

\* the k-th smallest entry of g, by counting
OrdenK(g, k) ==
    CHOOSE v \in Elementos(g) :
        /\ Cardinality({i \in 1..Len(g) : g[i] < v}) < k
        /\ Cardinality({i \in 1..Len(g) : g[i] <= v}) >= k

\* C16: for a gap series g of length n >= 1 the gap analysis returns the mean
\* sum(g)/n, the median of g and the population standard deviation
\* sqrt(sum((g_i - mean)^2)/n), divisor n and not n-1 (stated on its square,
\* sum(g_i^2)/n - mean^2); limit 10 gives series [2], mean 2, median 2 and
\* deviation 0.
C16_MediaMedianaDesviacion ==
    (op = "analizar_distancias_entre_gemelos" /\ Len(entrada) >= 2)
        => LET g == res.valor.distancias
               n == Len(g)
               S == Suma(g)
               Q == Suma([i \in 1..n |-> g[i] * g[i]])
               media == res.valor.media
               mediana == res.valor.mediana
               cuadrado == res.valor.desviacion.cuadrado
           IN  /\ n >= 1
               /\ media.den # 0
               /\ media.num * n = S * media.den
               /\ mediana.den # 0
               /\ (n % 2 = 1) =>
                      mediana.num = OrdenK(g, (n + 1) \div 2) * mediana.den
               /\ (n % 2 = 0) =>
                      2 * mediana.num
                          = (OrdenK(g, n \div 2) + OrdenK(g, n \div 2 + 1))
                                * mediana.den
               /\ cuadrado.den # 0
               /\ cuadrado.num * n * n = (n * Q - S * S) * cuadrado.den
               /\ (limite = 10) =>
                      /\ g = <<2>>
                      /\ media.num = 2 * media.den
                      /\ mediana.num = 2 * mediana.den
                      /\ cuadrado.num = 0

\* C16 witness: the gap analysis has run on the list of limit 10, whose
\* series is [2].
C16_Testigo ==
    /\ op = "analizar_distancias_entre_gemelos"
    /\ limite = 10
    /\ res = Ok(Analisis(<<2>>, Fraccion(2, 1), Fraccion(2, 1),
                         Raiz(Fraccion(0, 1))))

\* C16 second witness: a series of even length that is not sorted, with a
\* deviation that is not 0.
C16_TestigoDesordenado ==
    /\ op = "analizar_distancias_entre_gemelos"
    /\ res.valor.distancias = <<3, 1>>
    /\ res.valor.mediana = Fraccion(4, 2)

----------------------------------------------------------------------------
(* Claims about the windowed analyses, checked under SpecAnalisis *)

\* C17: calcular_densidad(gemelos, limite, w) emits, in ascending order, one
\* (center, density) sample for every full window [k*w, (k+1)*w) contained in
\* [0, limite), with center k*w + w/2 and density (number of pairs whose first
\* element lies in the window) / w; only a trailing partial window is dropped.
C17_VentanasCompletas ==
    (op = "calcular_densidad")
        => LET w == tam_ventana
               K == limite \div w
               centros == res.valor.centros
               densidades == res.valor.densidades
           IN  /\ res.estado = "ok"
               /\ Len(centros) = K
               /\ Len(densidades) = K
               /\ \A k \in 0..(K - 1) :
                     /\ centros[k + 1].den # 0
                     /\ 2 * centros[k + 1].num
                            = (2 * k * w + w) * centros[k + 1].den
                     /\ densidades[k + 1].den # 0
                     /\ densidades[k + 1].num * w
                            = Cardinality({i \in 1..Len(entrada) :
                                  k * w <= entrada[i][1]
                                      /\ entrada[i][1] < (k + 1) * w})
                                  * densidades[k + 1].den

\* C18 as stated: when the caller supplies no window size the density
\* analysis uses max(limit/100, 10); a caller-supplied size is used unchanged.
C18_VentanaPorDefecto ==
    /\ (op = "calcular_densidad_defecto")
           => res.valor.tam_ventana
                  = (IF limite \div 100 >= 10 THEN limite \div 100 ELSE 10)
    /\ (op = "calcular_densidad") => res.valor.tam_ventana = tam_ventana

\* C18 amended: calcular_densidad called without a window size uses 100;
\* the complete analysis supplies max(limite // 100, 10); a supplied size is
\* used unchanged (it divides every count and spaces the centers).
C18_VentanaDelAnalisis ==
    /\ (op = "calcular_densidad_defecto") => res.valor.tam_ventana = 100
    /\ (op = "analisis_densidad")
           => /\ tam_ventana >= 10 /\ tam_ventana >= limite \div 100
              /\ tam_ventana \in {10, limite \div 100}
    /\ (op \in {"calcular_densidad", "analisis_densidad"})
           => /\ res.valor.tam_ventana = tam_ventana
              /\ \A i \in 1..Len(res.valor.densidades) :
                    res.valor.densidades[i].den = tam_ventana
              /\ \A i \in 1..(Len(res.valor.centros) - 1) :
                    res.valor.centros[i + 1].num - res.valor.centros[i].num
                        = tam_ventana * res.valor.centros[i].den

\* C18 witness: the complete analysis has run for a limit whose hundredth
\* exceeds 10 and has handed that size to calcular_densidad.
C18_Testigo ==
    /\ op = "analisis_densidad"
    /\ limite \div 100 > 10
    /\ tam_ventana = limite \div 100
    /\ Len(res.valor.centros) > 1

\* the primes up to the limit of the state
PrimosHastaLimite == Elementos(criba_eratostenes(limite).valor)

\* the windows of a ratio analysis that hold p, half-open
VentanasCon(v, p) ==
    {i \in 1..(Len(v) - 1) :
        v[i].num <= p * v[i].den /\ p * v[i + 1].den < v[i + 1].num}

\* the samples of a ratio analysis are those of the windows holding a prime,
\* in order, each (2 * pairs starting in the window) / (primes in the window)
MuestrasDeProporcion(v, proporciones, g) ==
    LET primos_en(i) == Cardinality({p \in PrimosHastaLimite : i \in VentanasCon(v, p)})
        gemelos_en(i) ==
            Cardinality({j \in 1..Len(g) : i \in VentanasCon(v, g[j][1])})
        con_primos == SelectSeq([i \in 1..(Len(v) - 1) |-> i],
                                LAMBDA i : primos_en(i) > 0)
    IN  /\ Len(proporciones) = Len(con_primos)
        /\ \A k \in 1..Len(con_primos) :
              /\ proporciones[k].den # 0
              /\ proporciones[k].num * primos_en(con_primos[k])
                     = 2 * gemelos_en(con_primos[k]) * proporciones[k].den

\* C19 as stated: the windows of the ratio analysis together span
\* [0, limit], so every prime <= limit is counted in exactly one window; a
\* window with primes emits one sample (2 * pairs) / primes, a window without
\* primes emits none.
C19_CadaPrimoEnUnaVentana ==
    (op = "analisis_proporcion")
        => /\ res.estado = "ok"
           /\ \A p \in PrimosHastaLimite :
                 Cardinality(VentanasCon(res.valor.ventanas, p)) = 1
           /\ MuestrasDeProporcion(res.valor.ventanas, res.valor.proporciones,
                                   entrada)

\* C19 amended: the ratio analysis has min(100, limite // 10) - 1 half-open
\* windows (none when limite < 20) that together cover [0, limite): for
\* limite >= 20 every prime < limite is counted in exactly one window and a
\* prime equal to limite in none; a window with primes emits one sample
\* (2 * pairs) / primes, a window without primes emits none.
C19_VentanasSemiabiertas ==
    (op = "analisis_proporcion")
        => LET v == res.valor.ventanas
           IN  /\ res.estado = "ok"
               /\ Len(v) = (IF limite \div 10 <= 100 THEN limite \div 10 ELSE 100)
               /\ (limite < 20) => res.valor.proporciones = <<>>
               /\ (limite >= 20) =>
                      /\ v[1].num = 0
                      /\ v[Len(v)].num = limite * v[Len(v)].den
                      /\ \A i \in 1..(Len(v) - 1) :
                            v[i].num * v[i + 1].den < v[i + 1].num * v[i].den
                      /\ \A p \in PrimosHastaLimite :
                            Cardinality(VentanasCon(v, p))
                                = (IF p < limite THEN 1 ELSE 0)
               /\ MuestrasDeProporcion(v, res.valor.proporciones, entrada)
               /\ Len(res.valor.centros) = Len(res.valor.proporciones)

\* C19 witness: the ratio analysis has run over several windows, one of
\* which holds no prime and emitted no sample.
C19_Testigo ==
    /\ op = "analisis_proporcion"
    /\ Len(res.valor.ventanas) >= 3
    /\ Len(res.valor.proporciones) >= 1
    /\ Len(res.valor.proporciones) < Len(res.valor.ventanas) - 1

\* the twin pairs (p, p + 2) with p + 2 <= n, counted from the definition
CuentaGemelosDef(n) ==
    Cardinality({p \in 1..n : EsPrimoDef(p) /\ EsPrimoDef(p + 2) /\ p + 2 <= n})

\* C20: for every positive limit comparar_con_pi returns three series of
\* length 20; the sub-limits all lie between 100 and the target limit, the
\* first being 100 and the last the target limit; the k-th real count is the
\* number of twin pairs (p, p+2) with p+2 <= the k-th sub-limit.
C20_VeinteSubLimites ==
    (op = "comparar_con_pi")
        => LET escala == res.valor.limites_escala
               reales == res.valor.cantidades_reales
               menor == IF limite < 100 THEN limite ELSE 100
               mayor == IF limite < 100 THEN 100 ELSE limite
           IN  /\ res.estado = "ok"
               /\ Len(escala) = 20
               /\ Len(reales) = 20
               /\ Len(res.valor.cantidades_estimadas) = 20
               /\ \A k \in 1..Len(escala) : escala[k] \in menor..mayor
               /\ escala[1] = 100
               /\ escala[Len(escala)] = limite
               /\ \A k \in 1..Len(escala) : reales[k] = CuentaGemelosDef(escala[k])

----------------------------------------------------------------------------
(* Claims about the figures of the GUI statistics, checked under Spec *)

\* the number of entries of d equal to v
Veces(d, v) == Cardinality({i \in 1..Len(d) : d[i] = v})

\* the index at which v first occurs in d
PrimeraVez(d, v) ==
    CHOOSE i \in 1..Len(d) : d[i] = v /\ \A j \in 1..(i - 1) : d[j] # v

\* C22: the mode reported for a non-empty gap series is a gap value of
\* maximal frequency; when several values share the maximal frequency it is
\* the one that occurs first in the series; the reported frequency is the
\* number of occurrences of that value.
C22_ModaPrimeraEncontrada ==
    (op = "mostrar_estadisticas" /\ res.valor.salida = "ventana")
        => LET d == res.valor.distancias
               moda == res.valor.moda
           IN  /\ Len(d) >= 1
               /\ \E i \in 1..Len(d) : d[i] = moda
               /\ res.valor.freq_moda = Veces(d, moda)
               /\ \A i \in 1..Len(d) : Veces(d, d[i]) <= Veces(d, moda)
               /\ \A i \in 1..Len(d) :
                      Veces(d, d[i]) = Veces(d, moda)
                          => PrimeraVez(d, moda) <= PrimeraVez(d, d[i])

\* C22 witness: the statistics were shown for the series 2, 1, 2, 1, where
\* 2 and 1 both occur twice and the larger value 2 comes first.
C22_Testigo ==
    /\ op = "mostrar_estadisticas"
    /\ res.valor.salida = "ventana"
    /\ res.valor.distancias = <<2, 1, 2, 1>>
    /\ res.valor.moda = 2
    /\ res.valor.freq_moda = 2

\* the primes <= n that are a member of at least one twin pair within 1..n
PrimosGemelosDistintos(n) ==
    {p \in 1..n :
        /\ EsPrimoDef(p)
        /\ \/ (p + 2 <= n /\ EsPrimoDef(p + 2))
           \/ (p - 2 >= 1 /\ EsPrimoDef(p - 2))}

\* C23: for every limit, the figure "primes in twin pairs" of the statistics
\* view, 2 * (number of pairs), is the number of distinct primes <= limit
\* that belong to at least one twin pair, and the proportion displayed,
\* (2 * pairs) / (number of primes <= limit), is the true fraction of the
\* primes <= limit that are members of a twin pair.
C23_ProporcionVerdadera ==
    (/\ op = "mostrar_estadisticas"
     /\ limite >= 1
     /\ res.valor.salida = "ventana"
     /\ res.valor.con_proporcion)
        => LET miembros == Cardinality(PrimosGemelosDistintos(limite))
               primos == Cardinality({p \in 1..limite : EsPrimoDef(p)})
           IN  /\ res.valor.primos_en_pares = miembros
               /\ res.valor.proporcion.num * primos
                      = miembros * res.valor.proporcion.den

----------------------------------------------------------------------------
(* Claims about the GUI, checked under SpecFrontEnd and SpecFrontEndJusto *)

\* C21: a successful CSV export writes the header and then exactly one row
\* per pair of the current pair list, in list order; the row of the i-th
\* pair (from 1) is (i, first prime, second prime, second - first) and its
\* difference column is 2; with an empty pair list no file is written.
C21_ExportacionCSV ==
    /\ (evento.nombre = "exportar_escribe" /\ evento.salida = "ok")
           => /\ evento.archivo.encabezado = encabezado_csv
              /\ Len(evento.archivo.filas) = Len(gemelos)
              /\ \A i \in 1..Len(gemelos) :
                     /\ evento.archivo.filas[i]
                            = <<i, gemelos[i][1], gemelos[i][2],
                                gemelos[i][2] - gemelos[i][1]>>
                     /\ evento.archivo.filas[i][4] = 2
              /\ Len(gemelos) > 0
    /\ (evento.nombre = "exportar_csv" /\ Len(gemelos) = 0)
           => (evento.salida = "info_sin_gemelos" /\ dialogo = "cerrado")

\* the part of C21 about the rows: what a written file holds is the header
\* and the rows of the list held when it is written
C21_FilasDelArchivo ==
    (evento.nombre = "exportar_escribe" /\ evento.salida = "ok")
        => /\ evento.archivo.encabezado = encabezado_csv
           /\ Len(evento.archivo.filas) = Len(gemelos)
           /\ \A i \in 1..Len(gemelos) :
                  /\ evento.archivo.filas[i]
                         = <<i, gemelos[i][1], gemelos[i][2],
                             gemelos[i][2] - gemelos[i][1]>>
                  /\ evento.archivo.filas[i][4] = 2

\* a file with the eight rows of the initial limit has been written
C21_ArchivoEscrito ==
    /\ evento.nombre = "exportar_escribe"
    /\ evento.salida = "ok"
    /\ Len(evento.archivo.filas) = 8
    /\ evento.archivo.filas[8] = <<8, 71, 73, 2>>

\* C24: every Generar request the GUI accepts (limit >= 1) starts one
\* background computation and eventually leads to mostrar_resultados running
\* for it on the main thread, after which the status reads "completed" with
\* the number of pairs equal to the length of the list then held; the status
\* never stays at "generating" for ever.
C24_GenerarCompleta ==
    /\ \A h \in 1..MaxHilos :
           [](hilos[h].pc = "inicio"
                 => <>(/\ evento.nombre = "mostrar_resultados"
                       /\ hilos[h].pc = "libre"
                       /\ status_var = Estado("Generacion completada",
                                              Len(gemelos))))
    /\ [](status_var.texto = "Generando primos gemelos..."
             => <>(status_var.texto # "Generando primos gemelos..."))

\* C25: whenever the GUI displays results or derives statistics from its
\* pair list, the limit and the method it reports and uses alongside the
\* list are those the list was computed with, however the user's edits of
\* the limit and method fields interleave with a running generation.
C25_LimiteYMetodoDeLaLista ==
    (\/ (/\ evento.nombre = "mostrar_resultados"
         /\ evento.salida = "ok"
         /\ origen # SinOrigen)
     \/ (/\ evento.nombre = "estadisticas"
         /\ evento.salida = "ventana"))
        => /\ campo_limite.val = origen.limite
           /\ method_var = origen.metodo

\* every background generation has stored its list
GeneracionesTerminadas ==
    \A h \in 1..MaxHilos : hilos[h].pc \in {"libre", "after"}

\* the list the engines return for a limit Generar accepted
ListasDelLimite(lim) ==
    {motor_por_limite[lim].basico.valor, motor_por_limite[lim].optimizado.valor}

\* C26: once all background generations have finished, the pair list is the
\* one the latest request among Generar and Limpiar asks for: after
\* overlapping Generar requests it is the result of the request issued last,
\* and after Limpiar it stays empty until a later Generar is issued, under
\* every interleaving of the threads with the main thread.
C26_UltimaPeticionGana ==
    /\ (GeneracionesTerminadas /\ ultima.tipo = "generar")
           => gemelos \in ListasDelLimite(ultima.limite)
    /\ (GeneracionesTerminadas /\ ultima.tipo = "limpiar")
           => gemelos = <<>>

====
